---- MODULE Spec2Model ----
(***************************************************************************)
(* Verification model of the repro training harness.                       *)
(*                                                                         *)
(*   src/src/repro/train.py                 training driver, LR schedule   *)
(*   src/src/repro/dataset/tinyimagenet.py  dataset preparer and loader    *)
(*                                                                         *)
(* Four specifications share the module, one per component:                *)
(*   SpecTrain  the callbacks train() wires on the engine's events         *)
(*   SpecData   build_dataset run by concurrently launched processes       *)
(*   SpecLR     MultiStepLR construction and stepping                      *)
(*   SpecSplit  the validation/test index ranges of build()                *)
(* A specification leaves the variables of the other components at rest.   *)
(***************************************************************************)
EXTENDS Integers, Sequences, FiniteSets, TLC

VARIABLES
    \* ---- training driver (train.py, train) ----
    tpc,              \* position of train(): "init", "loop", "epoch", "epoch_done", "exited"
    epoch,            \* engine.state.epoch
    iteration,        \* engine.state.iteration
    last_checkpoint,  \* engine.state.last_checkpoint (seconds)
    all_stats,        \* the list all_stats of train()
    store,            \* the checkpoint kept by the mahler client: <<>> or <<record>>
    now,              \* datetime.utcnow(), in seconds since the process started
    rng,              \* state of the random generators used for sampling
    sampler_seed,     \* seeds['sampler']
    runs,             \* number of invocations of train() so far
    resumed,          \* whether trainer_load_checkpoint found a checkpoint in this run
    ckptLog,          \* one record per call of trainer_save_checkpoint in this run
    persisted,        \* the engine state handed to the last save_checkpoint: <<>> or <<record>>
    outcome,          \* how train() ended: "none", "returned" or the exception raised
    \* ---- dataset preparer (tinyimagenet.py, build_dataset) ----
    fs,               \* the files under data_path: archive, extracted tree, containers
    lock,             \* holder of the FileLock on tiny-imagenet-200.lock, or "free"
    dpc,              \* position of each process in build_dataset
    derr,             \* the exception each process is propagating, or "none"
    calls,            \* number of calls of build_dataset each process has made
    ioBy,             \* the process whose step just wrote or deleted dataset files, or "none"
    path,             \* the way the current call went: "noop", "build" or "timeout"
    ioCount,          \* lock, download, extract, write and delete operations of the current call
    \* ---- learning-rate schedule (train.py, MultiStepLR) ----
    lrArgs,           \* the arguments given to MultiStepLR and the optimizer's base rate
    sched,            \* the scheduler object: <<>> before construction, else <<record>>
    lr,               \* param_group['lr'], a rational <<numerator, denominator>>
    lrEpoch,          \* the value of last_epoch the current rate was computed for
    \* ---- validation/test split (tinyimagenet.py, build) ----
    vlen,             \* len(dataset) of the validation container
    spc,              \* position in build(): "loaded", "valid", "test"
    valid_idx,        \* indices given to the validation sampler
    test_idx          \* indices given to the test sampler

varsTrain == <<tpc, epoch, iteration, last_checkpoint, all_stats, store, now, rng,
               sampler_seed, runs, resumed, ckptLog, persisted, outcome>>

varsData == <<fs, lock, dpc, derr, calls, ioBy, path, ioCount>>

varsLR == <<lrArgs, sched, lr, lrEpoch>>

varsSplit == <<vlen, spc, valid_idx, test_idx>>

vars == <<varsTrain, varsData, varsLR, varsSplit>>

\* what each component leaves alone
notTrain == <<varsData, varsLR, varsSplit>>
notData == <<varsTrain, varsLR, varsSplit>>
notLR == <<varsTrain, varsData, varsSplit>>
notSplit == <<varsTrain, varsData, varsLR>>

-----------------------------------------------------------------------------
(* Bounds of the model *)

\* max_epochs of train() (train.py:160, default 200)
MaxEpochs == 3

\* invocations of train() on the same task (a pre-empted job is launched again)
MaxRuns == 2

\* batches of dataset['train'] consumed by one epoch
BatchesPerEpoch == 2

\* number of distinct generator states
RngSize == 3

-----------------------------------------------------------------------------
(* Program constants *)

\* train.py:31  TIME_BUFFER = 60 * 5
TIME_BUFFER == 300

\* durations, in seconds, of one epoch of training, of the evaluation done by
\* trainer_save_checkpoint and of one save_checkpoint call
TrainDelays == {TIME_BUFFER \div 2, TIME_BUFFER}
EvalDelays == {0, TIME_BUFFER + 1}
SaveDelays == {0, 1}

SamplerSeeds == {1, 2}
RngStates == 0 .. (RngSize - 1)

-----------------------------------------------------------------------------
(* Checkpoint store: repro.model.base, reached through the mahler client *)

\* save_checkpoint(client, model, optimizer, lr_scheduler, **metadata)
save_checkpoint(e, i, stats) == <<[epoch |-> e, iteration |-> i, all_stats |-> stats]>>

\* load_checkpoint(client, model, optimizer, lr_scheduler): the metadata, or nothing
load_checkpoint(s) == s

-----------------------------------------------------------------------------
(* Random generators *)

\* the generator state that seeding with s produces
SeededState(s) == s % RngSize

\* drawing a sampling order moves the generator on
Advance(r) == (r + 1) % RngSize

\* train.py:246-254  seed(seed): the four seeding calls are commented out, only
\* the cudnn flags are set; the generator state is left as it was
seed(r, s) == r

-----------------------------------------------------------------------------
(* trainer_save_checkpoint *)

\* train.py:210-222  stats = dict(epoch=engine.state.epoch, ...)
EpochStats(e) == [epoch |-> e]

\* variant: the gate opens at exactly TIME_BUFFER seconds
ShouldCheckpoint_inclusive(t, last) == (t - last) >= TIME_BUFFER

\* train.py:228  the time gate
ShouldCheckpoint(t, last) == (t - last) > TIME_BUFFER

\* train.py:206-235  the handler, run with the counters e, i and last checkpoint
\* time last; the evaluation takes d1 seconds and a save d2 seconds
SaveCheckpointHandler(e, i, last, d1, d2) ==
    LET stats == Append(all_stats, EpochStats(e))
        t0 == now + d1
        gate == ShouldCheckpoint(t0, last)
        t1 == IF gate THEN t0 + d2 ELSE t0
    IN  /\ all_stats' = stats
        /\ store' = IF gate THEN save_checkpoint(e, i, stats) ELSE store
        /\ persisted' = IF gate
                          THEN <<[epoch |-> e, iteration |-> i, all_stats |-> stats]>>
                          ELSE persisted
        /\ last_checkpoint' = IF gate THEN t1 ELSE last
        /\ now' = t1
        /\ ckptLog' = Append(ckptLog, [epoch |-> e, elapsed |-> t0 - last, saved |-> gate,
                                       begin |-> t0, end |-> t1])

-----------------------------------------------------------------------------
(* trainer_load_checkpoint *)

\* variant: the loaded history is not put back into all_stats
ResumeStats_dropped(stats, loaded) == stats

\* train.py:191-192  for epoch_stats in metadata['all_stats']: all_stats.append(...)
ResumeStats(stats, loaded) == stats \o loaded

\* train.py:183-197  Events.STARTED
trainer_load_checkpoint ==
    /\ tpc = "init"
    /\ LET metadata == load_checkpoint(store)
       IN  IF metadata # <<>>
             THEN /\ last_checkpoint' = now
                  /\ epoch' = metadata[1].epoch
                  /\ iteration' = metadata[1].iteration
                  /\ all_stats' = ResumeStats(all_stats, metadata[1].all_stats)
                  /\ resumed' = TRUE
                  /\ UNCHANGED <<store, now, ckptLog, persisted>>
             ELSE /\ epoch' = 0
                  /\ iteration' = 0
                  /\ resumed' = FALSE
                  /\ \E d1 \in EvalDelays, d2 \in SaveDelays :
                        SaveCheckpointHandler(0, 0, now, d1, d2)
    /\ tpc' = "loop"
    /\ UNCHANGED <<rng, sampler_seed, runs, outcome>>
    /\ UNCHANGED notTrain

-----------------------------------------------------------------------------
(* The engine loop and the other handlers *)

\* train.py:199-204  Events.EPOCH_STARTED, fired by the engine after epoch += 1
trainer_seeding ==
    /\ tpc = "loop"
    /\ epoch < MaxEpochs
    /\ epoch' = epoch + 1
    /\ rng' = seed(rng, sampler_seed + epoch')
    /\ tpc' = "epoch"
    /\ UNCHANGED <<iteration, last_checkpoint, all_stats, store, now, sampler_seed,
                   runs, resumed, ckptLog, persisted, outcome>>
    /\ UNCHANGED notTrain

\* train.py:238  one pass of the engine over dataset['train']
RunEpoch ==
    /\ tpc = "epoch"
    /\ iteration' = iteration + BatchesPerEpoch
    /\ rng' = Advance(rng)
    /\ \E d \in TrainDelays : now' = now + d
    /\ tpc' = "epoch_done"
    /\ UNCHANGED <<epoch, last_checkpoint, all_stats, store, sampler_seed, runs,
                   resumed, ckptLog, persisted, outcome>>
    /\ UNCHANGED notTrain

\* train.py:206-235  Events.EPOCH_COMPLETED
trainer_save_checkpoint ==
    /\ tpc = "epoch_done"
    /\ \E d1 \in EvalDelays, d2 \in SaveDelays :
          SaveCheckpointHandler(epoch, iteration, last_checkpoint, d1, d2)
    /\ tpc' = "loop"
    /\ UNCHANGED <<epoch, iteration, rng, sampler_seed, runs, resumed, outcome>>
    /\ UNCHANGED notTrain

\* train.py:26-28, 240-243  clear_checkpoint is neither imported nor defined in
\* train.py: the call raises NameError, nothing is deleted and nothing returned
TrainFinish ==
    /\ tpc = "loop"
    /\ epoch >= MaxEpochs
    /\ tpc' = "exited"
    /\ outcome' = "NameError"
    /\ UNCHANGED <<epoch, iteration, last_checkpoint, all_stats, store, now, rng,
                   sampler_seed, runs, resumed, ckptLog, persisted>>
    /\ UNCHANGED notTrain

\* train.py:160-181  the job stops (it ended, or was pre-empted) and train() is
\* called again on the same task: fresh process state, same checkpoint store
Rerun ==
    /\ tpc # "init"
    /\ runs < MaxRuns
    /\ runs' = runs + 1
    /\ tpc' = "init"
    /\ epoch' = 0
    /\ iteration' = 0
    /\ last_checkpoint' = 0
    /\ all_stats' = <<>>
    /\ now' = 0
    /\ rng' \in RngStates
    /\ resumed' = FALSE
    /\ ckptLog' = <<>>
    /\ outcome' = "none"
    /\ UNCHANGED <<store, sampler_seed, persisted>>
    /\ UNCHANGED notTrain

InitTrain ==
    /\ tpc = "init"
    /\ epoch = 0
    /\ iteration = 0
    /\ last_checkpoint = 0
    /\ all_stats = <<>>
    /\ store = <<>>
    /\ now = 0
    /\ rng \in RngStates
    /\ sampler_seed \in SamplerSeeds
    /\ runs = 1
    /\ resumed = FALSE
    /\ ckptLog = <<>>
    /\ persisted = <<>>
    /\ outcome = "none"

\* the training driver before train() is called
RestTrain ==
    /\ tpc = "init"
    /\ epoch = 0
    /\ iteration = 0
    /\ last_checkpoint = 0
    /\ all_stats = <<>>
    /\ store = <<>>
    /\ now = 0
    /\ rng = 0
    /\ sampler_seed = 1
    /\ runs = 1
    /\ resumed = FALSE
    /\ ckptLog = <<>>
    /\ persisted = <<>>
    /\ outcome = "none"

NextTrain ==
    \/ trainer_load_checkpoint
    \/ trainer_seeding
    \/ RunEpoch
    \/ trainer_save_checkpoint
    \/ TrainFinish
    \/ Rerun

-----------------------------------------------------------------------------
(* Dataset preparer: tinyimagenet.py *)

\* independently launched training jobs sharing data_path
Procs == {"p1", "p2", "p3"}

\* calls of build_dataset made by one process
MaxCalls == 2

FileStates == {"absent", "partial", "complete"}

\* variant: the archive is required as well as the two containers
all_hdf5_exists_and_zip(f) == f.zip /\ \A name \in {"train", "val"} : f[name] # "absent"

\* tinyimagenet.py:46-48  both container files exist (os.path.exists)
all_hdf5_exists(f) == \A name \in {"train", "val"} : f[name] # "absent"

\* one step of process p: its position, pending exception, and the ghost records
Move(p, pc, err, wrote, io) ==
    /\ dpc' = [dpc EXCEPT ![p] = pc]
    /\ derr' = [derr EXCEPT ![p] = err]
    /\ ioBy' = IF wrote THEN p ELSE "none"
    /\ ioCount' = [ioCount EXCEPT ![p] = @ + io]

\* tinyimagenet.py:51-53  entry of build_dataset and the early return
build_dataset(p) ==
    /\ dpc[p] \in {"idle", "done"}
    /\ calls[p] < MaxCalls
    /\ calls' = [calls EXCEPT ![p] = @ + 1]
    /\ path' = [path EXCEPT ![p] = IF fs.train # "absent" /\ fs.val # "absent"
                                      THEN "noop" ELSE "build"]
    /\ dpc' = [dpc EXCEPT ![p] = IF all_hdf5_exists(fs) THEN "done" ELSE "acquire"]
    /\ derr' = [derr EXCEPT ![p] = "none"]
    /\ ioBy' = "none"
    /\ ioCount' = [ioCount EXCEPT ![p] = 0]
    /\ UNCHANGED <<fs, lock>>
    /\ UNCHANGED notData

\* tinyimagenet.py:56  FileLock.__enter__ succeeds
AcquireLock(p) ==
    /\ dpc[p] = "acquire"
    /\ lock = "free"
    /\ lock' = p
    /\ Move(p, "download", "none", FALSE, 1)
    /\ UNCHANGED <<fs, calls, path>>
    /\ UNCHANGED notData

\* tinyimagenet.py:56, 60-62  the wait exceeds timeout while another process holds
\* the lock: Timeout is caught, print(...) writes the message and returns None,
\* and .format on None raises AttributeError inside the handler
LockTimeout(p) ==
    /\ dpc[p] = "acquire"
    /\ lock \notin {"free", p}
    /\ Move(p, "clean", "AttributeError", FALSE, 1)
    /\ path' = [path EXCEPT ![p] = "timeout"]
    /\ UNCHANGED <<fs, lock, calls>>
    /\ UNCHANGED notData

\* tinyimagenet.py:67-89  download: skipped when the archive is there
download(p) ==
    /\ dpc[p] = "download"
    /\ fs' = [fs EXCEPT !.zip = TRUE]
    /\ Move(p, "unzip", "none", ~fs.zip, IF fs.zip THEN 0 ELSE 1)
    /\ UNCHANGED <<lock, calls, path>>
    /\ UNCHANGED notData

\* tinyimagenet.py:92-96  unzip: extractall into data_path
unzip(p) ==
    /\ dpc[p] = "unzip"
    /\ fs' = [fs EXCEPT !.tree = TRUE]
    /\ Move(p, "train_open", "none", TRUE, 1)
    /\ UNCHANGED <<lock, calls, path>>
    /\ UNCHANGED notData

\* tinyimagenet.py:124-135  h5py.File(file_path, 'w') creates or truncates the container
OpenContainer(p, name, at, next) ==
    /\ dpc[p] = at
    /\ fs' = [fs EXCEPT ![name] = "partial"]
    /\ Move(p, next, "none", TRUE, 1)
    /\ UNCHANGED <<lock, calls, path>>
    /\ UNCHANGED notData

\* tinyimagenet.py:137-142  the loader walks the extracted tree and the records are
\* written; with the tree gone the loader raises and the container stays partial
WriteContainer(p, name, at, next) ==
    /\ dpc[p] = at
    /\ IF fs.tree
         THEN /\ fs' = [fs EXCEPT ![name] = "complete"]
              /\ Move(p, next, "none", TRUE, 1)
         ELSE /\ fs' = fs
              /\ Move(p, "release", "FileNotFoundError", FALSE, 1)
    /\ UNCHANGED <<lock, calls, path>>
    /\ UNCHANGED notData

\* tinyimagenet.py:104-109, 145-150  create_hdf5: the train container, then the val one
create_hdf5(p) ==
    \/ OpenContainer(p, "train", "train_open", "train_write")
    \/ WriteContainer(p, "train", "train_write", "val_open")
    \/ OpenContainer(p, "val", "val_open", "val_write")
    \/ WriteContainer(p, "val", "val_write", "release")

\* tinyimagenet.py:56  FileLock.__exit__: the with block is left, normally or not
ReleaseLock(p) ==
    /\ dpc[p] = "release"
    /\ lock = p
    /\ lock' = "free"
    /\ Move(p, "clean", derr[p], FALSE, 1)
    /\ UNCHANGED <<fs, calls, path>>
    /\ UNCHANGED notData

\* tinyimagenet.py:63-64, 99-101  finally: clean(data_path), after the lock is
\* released; shutil.rmtree raises when the tree is not there
clean(p) ==
    /\ dpc[p] = "clean"
    /\ IF fs.tree
         THEN /\ fs' = [fs EXCEPT !.tree = FALSE]
              /\ Move(p, "done", derr[p], TRUE, 1)
         ELSE /\ fs' = fs
              /\ Move(p, "done", "FileNotFoundError", FALSE, 1)
    /\ UNCHANGED <<lock, calls, path>>
    /\ UNCHANGED notData

InitData ==
    /\ fs \in [zip : BOOLEAN, tree : BOOLEAN, train : FileStates, val : FileStates]
    /\ fs.tree => fs.zip
    /\ lock = "free"
    /\ dpc = [p \in Procs |-> "idle"]
    /\ derr = [p \in Procs |-> "none"]
    /\ calls = [p \in Procs |-> 0]
    /\ ioBy = "none"
    /\ path = [p \in Procs |-> "idle"]
    /\ ioCount = [p \in Procs |-> 0]

\* the preparer before any process calls it
RestData ==
    /\ fs = [zip |-> FALSE, tree |-> FALSE, train |-> "absent", val |-> "absent"]
    /\ lock = "free"
    /\ dpc = [p \in Procs |-> "idle"]
    /\ derr = [p \in Procs |-> "none"]
    /\ calls = [p \in Procs |-> 0]
    /\ ioBy = "none"
    /\ path = [p \in Procs |-> "idle"]
    /\ ioCount = [p \in Procs |-> 0]

NextData ==
    \E p \in Procs :
        \/ build_dataset(p)
        \/ AcquireLock(p)
        \/ LockTimeout(p)
        \/ download(p)
        \/ unzip(p)
        \/ create_hdf5(p)
        \/ ReleaseLock(p)
        \/ clean(p)

-----------------------------------------------------------------------------
(* Learning-rate schedule: train.py, MultiStepLR *)

\* largest milestone epoch and number of milestones drawn
MaxMilestone == 3
MaxMilestones == 2

\* number of lr_scheduler.step() calls followed
MaxSteps == 4

\* rationals <<n, d>>, d > 0
RatEq(a, b) == a[1] * b[2] = b[1] * a[2]

RECURSIVE Pow(_, _)
Pow(b, k) == IF k = 0 THEN 1 ELSE b * Pow(b, k - 1)

\* base * g ** k
Scale(base, g, k) == <<base * Pow(g[1], k), Pow(g[2], k)>>

\* the sorted lists torch's MultiStepLR accepts
IsSorted(m) == \A i \in 1 .. (Len(m) - 1) : m[i] <= m[i + 1]

MilestoneLists ==
    {m \in UNION {[1 .. n -> 1 .. MaxMilestone] : n \in 0 .. MaxMilestones} : IsSorted(m)}

Gammas == {<<1, 10>>, <<1, 2>>}

BaseRates == {1, 2}

\* train.py:1  bisect.bisect_right(a, x): the binary search, lo and hi 0-based
RECURSIVE bisect(_, _, _, _)
bisect(a, x, lo, hi) ==
    IF lo < hi
      THEN LET mid == (lo + hi) \div 2
           IN  IF x < a[mid + 1] THEN bisect(a, x, lo, mid) ELSE bisect(a, x, mid + 1, hi)
      ELSE lo

bisect_right(a, x) == bisect(a, x, 0, Len(a))

\* train.py:55-57  __init__: div_first_epoch is kept; the base class is given
\* gamma=0.1 and last_epoch=-1 whatever the arguments are
MultiStepLR_init(milestones, gamma, div_first_epoch, base) ==
    [milestones |-> milestones, gamma |-> <<1, 10>>, div_first_epoch |-> div_first_epoch,
     base_lr |-> base, last_epoch |-> -1]

\* train.py:59-64  get_lr, for last_epoch = e
get_lr(s, e) ==
    IF e < 1 /\ s.div_first_epoch
      THEN Scale(s.base_lr, s.gamma, 1)
      ELSE Scale(s.base_lr, s.gamma, bisect_right(s.milestones, e))

\* train.py:131-132  the scheduler is built; the base class constructor sets the
\* rate of epoch 0 and leaves last_epoch at -1
BuildScheduler ==
    /\ sched = <<>>
    /\ LET s == MultiStepLR_init(lrArgs.milestones, lrArgs.gamma, lrArgs.div_first_epoch,
                                 lrArgs.base_lr)
       IN  /\ sched' = <<s>>
           /\ lr' = get_lr(s, 0)
           /\ lrEpoch' = 0
    /\ UNCHANGED lrArgs
    /\ UNCHANGED notLR

\* train.py:201-202  lr_scheduler.step(): last_epoch += 1, the rate is set from get_lr
StepScheduler ==
    /\ sched # <<>>
    /\ sched[1].last_epoch + 1 < MaxSteps
    /\ LET e == sched[1].last_epoch + 1
       IN  /\ sched' = <<[sched[1] EXCEPT !.last_epoch = e]>>
           /\ lr' = get_lr(sched[1], e)
           /\ lrEpoch' = e
    /\ UNCHANGED lrArgs
    /\ UNCHANGED notLR

InitLR ==
    /\ lrArgs \in [milestones : MilestoneLists, gamma : Gammas,
                   div_first_epoch : BOOLEAN, base_lr : BaseRates]
    /\ sched = <<>>
    /\ lr = <<lrArgs.base_lr, 1>>
    /\ lrEpoch = -1

\* the schedule when no scheduler is configured
RestLR ==
    /\ lrArgs = [milestones |-> <<>>, gamma |-> <<1, 10>>, div_first_epoch |-> FALSE,
                 base_lr |-> 1]
    /\ sched = <<>>
    /\ lr = <<1, 1>>
    /\ lrEpoch = -1

NextLR ==
    \/ BuildScheduler
    \/ StepScheduler

-----------------------------------------------------------------------------
(* Validation/test split: tinyimagenet.py, build *)

\* largest validation container length drawn
MaxLen == 40

\* int(len(dataset) / 2): true division, then truncation toward zero
Half(n) == n \div 2

\* tinyimagenet.py:207  range(int(len(dataset) / 2))
ValidRange(n) == 0 .. (Half(n) - 1)

\* variant: the test range starts one past the middle
TestRange_after_middle(n) == (Half(n) + 1) .. (n - 1)

\* tinyimagenet.py:213  range(int(len(dataset) / 2), len(dataset))
TestRange(n) == Half(n) .. (n - 1)

\* tinyimagenet.py:207-211  the validation sampler
BuildValidSampler ==
    /\ spc = "loaded"
    /\ valid_idx' = ValidRange(vlen)
    /\ spc' = "valid"
    /\ UNCHANGED <<vlen, test_idx>>
    /\ UNCHANGED notSplit

\* tinyimagenet.py:213-217  the test sampler
BuildTestSampler ==
    /\ spc = "valid"
    /\ test_idx' = TestRange(vlen)
    /\ spc' = "test"
    /\ UNCHANGED <<vlen, valid_idx>>
    /\ UNCHANGED notSplit

InitSplit ==
    /\ vlen \in 0 .. MaxLen
    /\ spc = "loaded"
    /\ valid_idx = {}
    /\ test_idx = {}

\* build() not called
RestSplit ==
    /\ vlen = 0
    /\ spc = "loaded"
    /\ valid_idx = {}
    /\ test_idx = {}

NextSplit ==
    \/ BuildValidSampler
    \/ BuildTestSampler

-----------------------------------------------------------------------------
(* Specifications *)

\* train() alone
StartTrain == InitTrain /\ RestData /\ RestLR /\ RestSplit

SpecTrain == StartTrain /\ [][NextTrain]_vars

\* build_dataset alone, run by the processes of Procs
StartData == InitData /\ RestTrain /\ RestLR /\ RestSplit

SpecData == StartData /\ [][NextData]_vars

\* the scheduler alone
StartLR == InitLR /\ RestTrain /\ RestData /\ RestSplit

SpecLR == StartLR /\ [][NextLR]_vars

\* the samplers of build() alone
StartSplit == InitSplit /\ RestTrain /\ RestData /\ RestLR

SpecSplit == StartSplit /\ [][NextSplit]_vars

-----------------------------------------------------------------------------
(* Properties of the training driver, under SpecTrain *)

\* the state between trainer_load_checkpoint and the first EPOCH_STARTED of a run
\* that found no checkpoint
FreshStarted == tpc = "loop" /\ ~resumed /\ epoch = 0

\* C1: on a fresh start the counters are zero and an initial checkpoint is in
\* the store before the first epoch starts.
C1_FreshStartPersists ==
    FreshStarted => (iteration = 0 /\ store # <<>> /\ store[1].epoch = 0)

\* the state between trainer_load_checkpoint and the first EPOCH_STARTED of a run
\* that loaded a checkpoint
ResumedStarted == tpc = "loop" /\ resumed /\ ckptLog = <<>>

\* C2: a run that loads the checkpoint persisted at epoch k with iteration i and
\* history H starts with epoch k, iteration i and history H, in the same order.
C2_RoundTrip ==
    ResumedStarted =>
        /\ persisted # <<>>
        /\ epoch = persisted[1].epoch
        /\ iteration = persisted[1].iteration
        /\ all_stats = persisted[1].all_stats

\* a run resumed from a checkpoint taken after at least one epoch
C2_Witness ==
    /\ ResumedStarted
    /\ epoch >= 1
    /\ iteration >= BatchesPerEpoch
    /\ Len(all_stats) >= 2

SavedIn(log) == {k \in 1 .. Len(log) : log[k].saved}

\* C3: a call of the epoch-completion handler persists only when more than
\* TIME_BUFFER seconds have passed since last_checkpoint, a call inside the
\* buffer persists nothing, last_checkpoint is the time of the last save, and
\* two persists of a run are more than TIME_BUFFER apart.
C3_TimeGated ==
    /\ \A k \in 1 .. Len(ckptLog) :
          /\ ckptLog[k].saved => ckptLog[k].elapsed > TIME_BUFFER
          /\ ckptLog[k].elapsed <= TIME_BUFFER => ~ckptLog[k].saved
    /\ \A j, k \in SavedIn(ckptLog) :
          j < k => ckptLog[k].begin - ckptLog[j].end > TIME_BUFFER
    /\ \A k \in SavedIn(ckptLog) :
          (\A j \in SavedIn(ckptLog) : j <= k) => last_checkpoint = ckptLog[k].end
    /\ (SavedIn(ckptLog) # {}) => store # <<>>

\* a run with two persists and, between or around them, a completion that
\* fell inside the buffer
C3_Witness ==
    /\ Cardinality(SavedIn(ckptLog)) >= 2
    /\ \E k \in 1 .. Len(ckptLog) : ~ckptLog[k].saved /\ ckptLog[k].elapsed > 0

\* C4: once all epochs are done train() deletes the checkpoint and returns the
\* metric history; no checkpoint remains.
C4_ClearsAndReturns ==
    tpc = "exited" => (outcome = "returned" /\ store = <<>>)

\* C8: after the epoch-start handler the generator state is the one seeding with
\* sampler_seed + epoch gives, whatever it was before.
C8_Reseeded ==
    tpc = "epoch" => rng = SeededState(sampler_seed + epoch)

-----------------------------------------------------------------------------
(* Properties of the dataset preparer, under SpecData *)

\* positions inside the with block, before the lock is given back
Building == {"download", "unzip", "train_open", "train_write", "val_open", "val_write"}

\* C5: while a process holds the lock and is downloading, extracting or writing
\* the containers, no other process writes or deletes dataset files.
C5_Serialized ==
    \A p \in Procs : (lock = p /\ dpc[p] \in Building) => ioBy \in {"none", p}

\* C6: a call whose lock acquisition timed out returns normally, without raising.
C6_TimeoutReturns ==
    \A p \in Procs : (path[p] = "timeout" /\ dpc[p] = "done") => derr[p] = "none"

\* C7: a call that finds both containers on entry returns at once, having taken
\* no lock and downloaded, extracted, written and deleted nothing.
C7_NoOp ==
    \A p \in Procs :
        path[p] = "noop" => (dpc[p] = "done" /\ derr[p] = "none" /\ ioCount[p] = 0)

\* a process whose second call found both containers, while the files are there
C7_Witness ==
    \E p \in Procs :
        /\ path[p] = "noop"
        /\ calls[p] = 2
        /\ dpc[p] = "done"
        /\ fs.train = "complete" /\ fs.val = "complete"

-----------------------------------------------------------------------------
(* Properties of the schedule, under SpecLR *)

\* number of milestones less than or equal to e
MilestonesUpTo(m, e) == Cardinality({i \in 1 .. Len(m) : m[i] <= e})

\* C9: with the first-epoch divisor disabled, the rate at epoch e is
\* base_rate * gamma^k, k the number of milestones <= e, for the gamma the
\* scheduler was built with.
C9_Rate ==
    (sched # <<>> /\ ~lrArgs.div_first_epoch) =>
        RatEq(lr, Scale(lrArgs.base_lr, lrArgs.gamma,
                        MilestonesUpTo(lrArgs.milestones, lrEpoch)))

-----------------------------------------------------------------------------
(* Properties of the split, under SpecSplit *)

\* C10: the validation and test index ranges are disjoint and their union is
\* exactly {0, ..., n-1}.
C10_Partition ==
    spc = "test" =>
        /\ valid_idx \cap test_idx = {}
        /\ valid_idx \cup test_idx = 0 .. (vlen - 1)

\* both samplers built over a container of odd length
C10_Witness == spc = "test" /\ vlen >= 3 /\ vlen % 2 = 1 /\ valid_idx # {} /\ test_idx # {}

====
